---- MODULE Spec2Model ----
(***************************************************************************)
(* Model of the WS-Security core of suds: suds/pki.py (issuer-serial       *)
(* references and the keystore) and suds/wsse.py (the Security policy, its *)
(* outgoing and incoming processing, and the part selection of Signature   *)
(* and Key).                                                               *)
(*                                                                         *)
(* Strings are sequences of one-character strings, so that split, lstrip   *)
(* and join are computed character by character.                           *)
(***************************************************************************)
EXTENDS Integers, Sequences, FiniteSets, TLC

\* ------------------------------------------------------------------ bounds
MaxLen == 4      \* longest raw issuer string drawn in SpecRef
MaxRegs == 2     \* addKey/addCertificate calls in one run of SpecKs
MaxParts == 3    \* selectors in one signed_parts / encrypted_parts list
MaxYield == 2    \* elements in a list yielded by one selector
MaxTokens == 2   \* tokens of a policy
MaxSigs == 2     \* signatures of a policy
MaxKeys == 2     \* keys of a policy
MaxEnvs == 2     \* envelopes processed concurrently against one policy

VARIABLES
    \* SpecRef: two references built from raw inputs
    rawA, rawB, refA, refB, refA2,
    \* SpecKs: the keystore, the calls made on it, the last lookup
    keystore, regs, lastLookup,
    \* SpecParts: one Signature or Key and what it handed to the provider
    partsObj, operands,
    \* Spec: the policy and the envelopes processed against it
    policy, envs

refVars == <<rawA, rawB, refA, refB, refA2>>
ksVars == <<keystore, regs, lastLookup>>
partsVars == <<partsObj, operands>>
secVars == <<policy, envs>>
vars == <<rawA, rawB, refA, refB, refA2, keystore, regs, lastLookup,
          partsObj, operands, policy, envs>>

\* ------------------------------------------------------- strings (python)
COMMA == ","
SPACE == " "
Whitespace == {SPACE}

\* str.split(','): the components between commas; always at least one
RECURSIVE SplitFrom(_, _, _)
SplitFrom(s, i, cur) ==
    IF i > Len(s) THEN <<cur>>
    ELSE IF s[i] = COMMA THEN <<cur>> \o SplitFrom(s, i + 1, <<>>)
    ELSE SplitFrom(s, i + 1, Append(cur, s[i]))

split(s) == SplitFrom(s, 1, <<>>)

\* string.lstrip: drop the leading whitespace only
RECURSIVE lstrip(_)
lstrip(s) ==
    IF s # <<>> /\ s[1] \in Whitespace THEN lstrip(Tail(s)) ELSE s

\* ','.join(parts)
RECURSIVE join(_)
join(parts) ==
    IF parts = <<>> THEN <<>>
    ELSE IF Len(parts) = 1 THEN parts[1]
    ELSE parts[1] \o <<COMMA>> \o join(Tail(parts))

\* map(f, seq) for f = string.lstrip
MapLstrip_first_only(parts) ==
    [i \in 1..Len(parts) |-> IF i = 1 THEN lstrip(parts[i]) ELSE parts[i]]

MapLstrip(parts) == [i \in 1..Len(parts) |-> lstrip(parts[i])]

normalize_serial_identity(issuer) == issuer

normalize_serial(issuer) == join(MapLstrip(split(issuer)))

\* hash of a python object: a fixed function of its value.  For a string the
\* value is folded character by character; an int hashes to itself.
CharCode(c) == IF c = COMMA THEN 3 ELSE IF c = SPACE THEN 5 ELSE IF c = "=" THEN 7 ELSE 11

RECURSIVE StrHashFrom(_, _, _)
StrHashFrom(s, i, h) ==
    IF i > Len(s) THEN h
    ELSE StrHashFrom(s, i + 1, (31 * h + CharCode(s[i])) % 64)

StrHash(s) == StrHashFrom(s, 1, 0)

\* --------------------------------------- X509IssuerSerialKeypairReference
NoRef == [none |-> TRUE]

X509IssuerSerialKeypairReference(issuer, serial) ==
    [issuer |-> normalize_serial(issuer), serial |-> serial]

getIssuer(self) == self.issuer
getSerial(self) == self.serial

X509Hash(self) == 17 * StrHash(self.issuer) + 23 * self.serial

X509Eq(self, other) ==
    self.issuer = getIssuer(other) /\ self.serial = getSerial(other)

\* ------------------------------------------------------------- SpecRef
\* Two references are built from raw (issuer, serial) inputs, and a third
\* from the getters of the first.
Alphabet == {"a", COMMA, SPACE}
Serials == {1, 2}

StringsUpTo(n) == UNION {[1..k -> Alphabet] : k \in 0..n}

InitRefVars ==
    /\ rawA \in [issuer : StringsUpTo(MaxLen), serial : {1}]
    /\ rawB \in [issuer : StringsUpTo(MaxLen), serial : Serials]
    /\ refA = NoRef
    /\ refB = NoRef
    /\ refA2 = NoRef

IdleRefVars ==
    /\ rawA = NoRef /\ rawB = NoRef
    /\ refA = NoRef /\ refB = NoRef /\ refA2 = NoRef

ConstructA ==
    /\ rawA # NoRef /\ refA = NoRef
    /\ refA' = X509IssuerSerialKeypairReference(rawA.issuer, rawA.serial)
    /\ UNCHANGED <<rawA, rawB, refB, refA2, ksVars, partsVars, secVars>>

ConstructB ==
    /\ rawB # NoRef /\ refA # NoRef /\ refB = NoRef
    /\ refB' = X509IssuerSerialKeypairReference(rawB.issuer, rawB.serial)
    /\ UNCHANGED <<rawA, rawB, refA, refA2, ksVars, partsVars, secVars>>

\* a reference rebuilt from another one's getIssuer() and getSerial()
Rebuild ==
    /\ refB # NoRef /\ refA2 = NoRef
    /\ refA2' = X509IssuerSerialKeypairReference(getIssuer(refA), getSerial(refA))
    /\ UNCHANGED <<rawA, rawB, refA, refB, ksVars, partsVars, secVars>>

\* ------------------------------------------------------------ Keystore
\* A python dict: entries in insertion order, each with the hash of its key.
\* A key matches an entry when the hashes are equal and the stored key's
\* __eq__ accepts it.
KeyError == [raised |-> "KeyError"]

DictHits(d, k) ==
    LET h == X509Hash(k)
    IN  {i \in 1..Len(d) : d[i].hash = h /\ X509Eq(d[i].key, k)}

DictFirstHit(d, k) == CHOOSE i \in DictHits(d, k) : \A j \in DictHits(d, k) : i <= j

dict_setitem_append(d, k, v) ==
    Append(d, [key |-> k, hash |-> X509Hash(k), value |-> v])

\* d[k] = v
dict_setitem(d, k, v) ==
    IF DictHits(d, k) = {}
    THEN Append(d, [key |-> k, hash |-> X509Hash(k), value |-> v])
    ELSE [d EXCEPT ![DictFirstHit(d, k)].value = v]

dict_getitem_default(d, k) ==
    IF DictHits(d, k) = {}
    THEN IF d = <<>> THEN KeyError ELSE d[1].value
    ELSE d[DictFirstHit(d, k)].value

\* d[k]
dict_getitem(d, k) ==
    IF DictHits(d, k) = {} THEN KeyError ELSE d[DictFirstHit(d, k)].value

\* X509PemFileCertificate: the issuer fields of the loaded certificate (an
\* absent or empty field is <<>>), its serial number, and the reference
\* built from them when the certificate is constructed.
RdnNames == <<
    <<"C", "N">>, <<"O", "U">>, <<"O">>, <<"L">>, <<"S", "T">>, <<"C">> >>

\* "CN=%s" % value
Rdn(i, value) == RdnNames[i] \o <<"=">> \o value

\* issuer_name_list, from field i on
RECURSIVE issuer_name_list(_, _)
issuer_name_list(fields, i) ==
    IF i > Len(RdnNames) THEN <<>>
    ELSE IF fields[i] # <<>>
         THEN <<Rdn(i, fields[i])>> \o issuer_name_list(fields, i + 1)
         ELSE issuer_name_list(fields, i + 1)

build_x509_issuer_serial(x509_cert) ==
    X509IssuerSerialKeypairReference(
        join(issuer_name_list(x509_cert.issuer, 1)), x509_cert.serial)

getX509IssuerSerial(cert) == build_x509_issuer_serial(cert)

\* the inputs: certificates, private keys, and issuer strings written with
\* some spaces before and after each separating comma
IssuerFields == {
    << <<"a">>, <<>>, <<>>, <<>>, <<>>, <<>> >>,
    << <<>>, <<"b">>, <<"o">>, <<>>, <<>>, <<"c">> >> }

Certs == [kind : {"cert"}, issuer : IssuerFields, serial : Serials]
PrivateKeys == [kind : {"key"}, id : {"k1"}]
Pads == {0, 1}

Spaces(n) == [i \in 1..n |-> SPACE]

RECURSIVE JoinPadded(_, _, _)
JoinPadded(parts, before, after) ==
    IF parts = <<>> THEN <<>>
    ELSE IF Len(parts) = 1 THEN parts[1]
    ELSE parts[1] \o Spaces(before) \o <<COMMA>> \o Spaces(after)
         \o JoinPadded(Tail(parts), before, after)

DnVariant(fields, before, after) ==
    JoinPadded(issuer_name_list(fields, 1), before, after)

\* every reference a caller can build: the issuer string it writes, the
\* serial, and X509IssuerSerialKeypairReference(issuer, serial)
ReferenceInputs ==
    {[dn |-> DnVariant(fields, before, after), serial |-> serial,
      reference |-> X509IssuerSerialKeypairReference(
                        DnVariant(fields, before, after), serial)] :
        fields \in IssuerFields, before \in Pads, after \in Pads, serial \in Serials}

NoLookup == [none |-> TRUE]

InitKsVars ==
    /\ keystore = <<>>
    /\ regs = <<>>
    /\ lastLookup = NoLookup

IdleKsVars == InitKsVars

\* Keystore.addKey(key, reference), the reference built by the caller from
\* an issuer string and a serial
addKey ==
    \E key \in PrivateKeys, in \in ReferenceInputs :
        /\ Len(regs) < MaxRegs
        /\ keystore' = dict_setitem(keystore, in.reference, key)
        /\ regs' = Append(regs, [op |-> "addKey", dn |-> in.dn,
                                 serial |-> in.serial, cred |-> key])
        /\ lastLookup' = NoLookup
        /\ UNCHANGED <<refVars, partsVars, secVars>>

\* Keystore.addCertificate(cert)
addCertificate ==
    \E cert \in Certs :
        /\ Len(regs) < MaxRegs
        /\ keystore' = dict_setitem(keystore, getX509IssuerSerial(cert), cert)
        /\ regs' = Append(regs, [op |-> "addCertificate",
                                 dn |-> DnVariant(cert.issuer, 0, 0),
                                 serial |-> cert.serial, cred |-> cert])
        /\ lastLookup' = NoLookup
        /\ UNCHANGED <<refVars, partsVars, secVars>>

\* Keystore.lookup(reference); lastLookup is what the call returned or
\* raised, until the next call that changes the keystore
lookup ==
    \E in \in ReferenceInputs :
        /\ lastLookup' = [dn |-> in.dn, serial |-> in.serial,
                          result |-> dict_getitem(keystore, in.reference)]
        /\ UNCHANGED <<keystore, regs, refVars, partsVars, secVars>>

\* ---------------------------------------------- Signature and Key (wsse)
\* A part selector is a callable taking the envelope; what it returns is
\* None, one element, or a list of elements.  v holds the element(s).
Elements == {"Body", "Timestamp"}

SeqsUpTo(S, n) == UNION {[1..k -> S] : k \in 0..n}

Selectors ==
    [t : {"None"}, v : {<<>>}]
    \cup [t : {"one"}, v : {<<e>> : e \in Elements}]
    \cup [t : {"list"}, v : SeqsUpTo(Elements, MaxYield)]

\* elements_to_digest_func(env)
CallSelector(func, env) == func

\* Element.__eq__, as used by "element not in elements_to_digest"
ElementEq(a, b) == a = b

\* element in elements
ElementIn(element, elements) ==
    \E i \in 1..Len(elements) : ElementEq(elements[i], element)

\* for element in addl_elements: if element not in acc: acc.append(element)
RECURSIVE AppendNewElements(_, _)
AppendNewElements(acc, addl_elements) ==
    IF addl_elements = <<>> THEN acc
    ELSE AppendNewElements(
            IF ElementIn(addl_elements[1], acc) THEN acc
            ELSE Append(acc, addl_elements[1]),
            Tail(addl_elements))

\* if not isinstance(addl_elements, list): addl_elements = [addl_elements]
AsList(addl_elements) ==
    IF addl_elements.t = "list" THEN addl_elements.v ELSE <<addl_elements.v[1]>>

RECURSIVE elements_to_digest_nodedup(_, _, _)
elements_to_digest_nodedup(parts, env, acc) ==
    IF parts = <<>> THEN acc
    ELSE LET addl_elements == CallSelector(parts[1], env)
         IN  IF addl_elements.t = "None"
             THEN elements_to_digest_nodedup(Tail(parts), env, acc)
             ELSE elements_to_digest_nodedup(Tail(parts), env,
                                             acc \o AsList(addl_elements))

\* the loop of Signature.signMessage over self.signed_parts
RECURSIVE elements_to_digest(_, _, _)
elements_to_digest(parts, env, acc) ==
    IF parts = <<>> THEN acc
    ELSE LET addl_elements == CallSelector(parts[1], env)
         IN  IF addl_elements.t = "None"
             THEN elements_to_digest(Tail(parts), env, acc)
             ELSE elements_to_digest(Tail(parts), env,
                                     AppendNewElements(acc, AsList(addl_elements)))

\* the loop of Key.encryptMessage over self.encrypted_parts
RECURSIVE elements_to_encrypt(_, _, _)
elements_to_encrypt(parts, env, acc) ==
    IF parts = <<>> THEN acc
    ELSE LET addl_elements == CallSelector(parts[1], env)
         IN  IF addl_elements.t = "None"
             THEN elements_to_encrypt(Tail(parts), env, acc)
             ELSE elements_to_encrypt(Tail(parts), env,
                                      AppendNewElements(acc, AsList(addl_elements)))

\* xmlsec.signMessage / xmlsec.encryptMessage: the element the provider
\* returns records the arguments it was handed
xmlsec_signMessage(key, x509_issuer_serial, elements, digest) ==
    [kind |-> "Signature", cred |-> key, operands |-> elements, alg |-> digest]

xmlsec_encryptMessage(cert, elements, keyTransport, blockEncryption) ==
    [kind |-> "EncryptedKey", cred |-> cert, operands |-> elements,
     alg |-> keyTransport]

Signature(key, x509_issuer_serial, signed_parts) ==
    [kind |-> "Signature", key |-> key, x509_issuer_serial |-> x509_issuer_serial,
     signed_parts |-> signed_parts, digest |-> "DIGEST_SHA1"]

Key(cert, encrypted_parts) ==
    [kind |-> "Key", cert |-> cert, encrypted_parts |-> encrypted_parts,
     blockEncryption |-> "BLOCK_ENCRYPTION_AES128_CBC",
     keyTransport |-> "KEY_TRANSPORT_RSA_OAEP"]

Signature_signMessage(self, env) ==
    xmlsec_signMessage(self.key, self.x509_issuer_serial,
                       elements_to_digest(self.signed_parts, env, <<>>), self.digest)

Key_encryptMessage(self, env) ==
    xmlsec_encryptMessage(self.cert, elements_to_encrypt(self.encrypted_parts, env, <<>>),
                          self.keyTransport, self.blockEncryption)

\* ------------------------------------------------------------ SpecParts
\* One Signature or Key with a drawn selector list is asked for its element.
NoCall == [called |-> FALSE, elements |-> <<>>]
NoObj == [none |-> TRUE]
NoEnv == [none |-> TRUE]

InitPartsVars ==
    /\ \E n \in 0..MaxParts : \E parts \in [1..n -> Selectors] :
            \/ partsObj = Signature("k1", 1, parts)
            \/ partsObj = Key("c1", parts)
    /\ operands = NoCall

IdlePartsVars ==
    /\ partsObj = NoObj
    /\ operands = NoCall

SignParts ==
    /\ partsObj # NoObj /\ partsObj.kind = "Signature" /\ operands = NoCall
    /\ operands' = [called |-> TRUE,
                    elements |-> Signature_signMessage(partsObj, NoEnv).operands]
    /\ UNCHANGED <<partsObj, refVars, ksVars, secVars>>

EncryptParts ==
    /\ partsObj # NoObj /\ partsObj.kind = "Key" /\ operands = NoCall
    /\ operands' = [called |-> TRUE,
                    elements |-> Key_encryptMessage(partsObj, NoEnv).operands]
    /\ UNCHANGED <<partsObj, refVars, ksVars, secVars>>

\* ------------------------------------------------------------- Security
\* Element.insert(objects, index): the objects go into the children at
\* index, in the order given (an index past the end appends)
ElementInsert(children, objects, index) ==
    LET at == IF index > Len(children) THEN Len(children) ELSE index
    IN  SubSeq(children, 1, at) \o objects \o SubSeq(children, at + 1, Len(children))

\* python's "a and b" and "a or b" on ints, and int(bool)
PyAnd(a, b) == IF a # 0 THEN b ELSE a
PyOr(a, b) == IF a # 0 THEN a ELSE b
BoolInt(b) == IF b THEN 1 ELSE 0

\* index = len(self.tokens) + self.includeTimestamp and 1 or 0
\* "+" binds tighter than "and", which binds tighter than "or"
InsertIndex(self) ==
    PyOr(PyAnd(Len(self.tokens) + BoolInt(self.includeTimestamp), 1), 0)

Timestamp_xml == [kind |-> "Timestamp", n |-> 0]
Token_xml(t) == [kind |-> "UsernameToken", n |-> t.n]

\* Security.xml(): the children of the Security header element
Security_xml(self) ==
    (IF self.includeTimestamp THEN <<Timestamp_xml>> ELSE <<>>)
    \o [i \in 1..Len(self.tokens) |-> Token_xml(self.tokens[i])]

Security_signMessage_consuming(self, header, env) ==
    [self |-> [self EXCEPT !.signatures = <<>>],
     index |-> InsertIndex(self),
     header |-> ElementInsert(header,
                    [i \in 1..Len(self.signatures) |->
                        Signature_signMessage(self.signatures[i], env)],
                    InsertIndex(self))]

\* Security.signMessage(env): what it leaves of self and of the header
Security_signMessage(self, header, env) ==
    [self |-> self,
     index |-> InsertIndex(self),
     header |-> ElementInsert(header,
                    [i \in 1..Len(self.signatures) |->
                        Signature_signMessage(self.signatures[i], env)],
                    InsertIndex(self))]

\* Security.encryptMessage(env)
Security_encryptMessage(self, header, env) ==
    [self |-> self,
     index |-> InsertIndex(self),
     header |-> ElementInsert(header,
                    [i \in 1..Len(self.keys) |->
                        Key_encryptMessage(self.keys[i], env)],
                    InsertIndex(self))]

OutgoingSteps_sign_first(self) == <<"sign", "encrypt">>

\* processOutgoingMessage: the calls it makes, in order
OutgoingSteps(self) ==
    IF self.encryptThenSign THEN <<"encrypt", "sign">> ELSE <<"sign", "encrypt">>

\* processIncomingMessage: the calls it makes, in order
IncomingSteps(self) ==
    IF self.encryptThenSign THEN <<"verify", "decrypt">> ELSE <<"decrypt", "verify">>

AfterCall_swallow(ok, next) == next

\* neither handler catches anything: a call that raises ends the handler
AfterCall(ok, next) == IF ok THEN next ELSE "raised"

\* the policies: flags, tokens, signatures and keys set up before traffic
BodySelector == [t |-> "one", v |-> <<"Body">>]
HeaderSelector == [t |-> "list", v |-> <<"Timestamp", "Body">>]

Policies ==
    {[mustUnderstand |-> TRUE,
      includeTimestamp |-> ts,
      encryptThenSign |-> ets,
      tokens |-> [i \in 1..nt |-> [kind |-> "UsernameToken", n |-> i]],
      signatures |-> [i \in 1..ns |->
                        Signature(i, i, <<BodySelector, HeaderSelector>>)],
      references |-> <<>>,
      keys |-> [i \in 1..nk |-> Key(i, <<BodySelector>>)],
      keystore |-> <<>>] :
        ts \in BOOLEAN, ets \in BOOLEAN,
        nt \in 0..MaxTokens, ns \in 0..MaxSigs, nk \in 0..MaxKeys}

NoPolicy == [none |-> TRUE]
Envs == 1..MaxEnvs
NewEnv == [call |-> "none", pc |-> "idle", header |-> <<>>, log |-> <<>>,
           index |-> <<>>]

InitSecVars ==
    /\ policy \in Policies
    /\ envs = [e \in Envs |-> NewEnv]

IdleSecVars ==
    /\ policy = NoPolicy
    /\ envs = <<>>

\* the binding builds the header with xml() and puts it in the envelope
xml(e) ==
    /\ envs[e].call = "none" /\ envs[e].pc = "idle"
    /\ envs' = [envs EXCEPT ![e].header = Security_xml(policy), ![e].pc = "built"]
    /\ UNCHANGED <<policy, refVars, ksVars, partsVars>>

\* one call made by processOutgoingMessage on envelope e
OutgoingCall(e, k) ==
    LET step == OutgoingSteps(policy)[k]
        r == IF step = "sign"
             THEN Security_signMessage(policy, envs[e].header, e)
             ELSE Security_encryptMessage(policy, envs[e].header, e)
    IN  /\ policy' = r.self
        /\ envs' = [envs EXCEPT
                ![e].call = "out",
                ![e].header = r.header,
                ![e].index = Append(@, r.index),
                ![e].log = Append(@, [step |-> step, ok |-> TRUE]),
                ![e].pc = AfterCall(TRUE, IF k = 1 THEN "second" ELSE "returned")]
        /\ UNCHANGED <<refVars, ksVars, partsVars>>

processOutgoingFirst(e) ==
    /\ envs[e].call = "none" /\ envs[e].pc = "built"
    /\ OutgoingCall(e, 1)

processOutgoingSecond(e) ==
    /\ envs[e].call = "out" /\ envs[e].pc = "second"
    /\ OutgoingCall(e, 2)

\* one call made by processIncomingMessage on envelope e; xmlsec's
\* verifyMessage / decryptMessage either returns or raises
IncomingCall(e, k, ok) ==
    /\ envs' = [envs EXCEPT
            ![e].call = "in",
            ![e].log = Append(@, [step |-> IncomingSteps(policy)[k], ok |-> ok]),
            ![e].pc = AfterCall(ok, IF k = 1 THEN "second" ELSE "returned")]
    /\ UNCHANGED <<policy, refVars, ksVars, partsVars>>

processIncomingFirst(e) ==
    /\ envs[e].call = "none" /\ envs[e].pc = "idle"
    /\ \E ok \in BOOLEAN : IncomingCall(e, 1, ok)

processIncomingSecond(e) ==
    /\ envs[e].call = "in" /\ envs[e].pc = "second"
    /\ \E ok \in BOOLEAN : IncomingCall(e, 2, ok)

\* ------------------------------------------------------ specifications
Init == IdleRefVars /\ IdleKsVars /\ IdlePartsVars /\ InitSecVars

Next ==
    \E e \in Envs :
        \/ xml(e)
        \/ processOutgoingFirst(e)
        \/ processOutgoingSecond(e)
        \/ processIncomingFirst(e)
        \/ processIncomingSecond(e)

Spec == Init /\ [][Next]_vars

InitRef == InitRefVars /\ IdleKsVars /\ IdlePartsVars /\ IdleSecVars
NextRef == ConstructA \/ ConstructB \/ Rebuild
SpecRef == InitRef /\ [][NextRef]_vars

InitKs == IdleRefVars /\ InitKsVars /\ IdlePartsVars /\ IdleSecVars
NextKs == addKey \/ addCertificate \/ lookup
SpecKs == InitKs /\ [][NextKs]_vars

InitParts == IdleRefVars /\ IdleKsVars /\ InitPartsVars /\ IdleSecVars
NextParts == SignParts \/ EncryptParts
SpecParts == InitParts /\ [][NextParts]_vars

\* ---------------------------------------------------------- properties
\* The identity of a reference as the specification words it: whitespace
\* written at the start of the issuer or right after a comma does not count.
\* The string is scanned once, character by character.
RECURSIVE StripScan(_, _, _)
StripScan(s, i, atStart) ==
    IF i > Len(s) THEN <<>>
    ELSE IF s[i] = COMMA THEN <<COMMA>> \o StripScan(s, i + 1, TRUE)
    ELSE IF atStart /\ s[i] \in Whitespace THEN StripScan(s, i + 1, TRUE)
    ELSE <<s[i]>> \o StripScan(s, i + 1, FALSE)

StripAfterCommas(s) == StripScan(s, 1, TRUE)

Identity(dn, serial) == <<StripAfterCommas(dn), serial>>

\* t is s with one more space right after one of its commas
SpaceInsertedAfterComma(s, t) ==
    \E p \in 1..Len(s) :
        /\ s[p] = COMMA
        /\ t = SubSeq(s, 1, p) \o <<SPACE>> \o SubSeq(s, p + 1, Len(s))

\* C6: two references are equal exactly when their issuers, with the
\* whitespace after commas dropped, and their serials are equal; a space
\* added after a comma changes nothing; normalizing a normalized issuer
\* returns it; equal references have equal hashes.
C6_IssuerSerialIdentity ==
    /\ refA # NoRef => refA.issuer = StripAfterCommas(rawA.issuer)
    /\ refB # NoRef =>
        /\ X509Eq(refA, refB) <=>
                Identity(rawA.issuer, rawA.serial) = Identity(rawB.issuer, rawB.serial)
        /\ X509Eq(refA, refB) <=> X509Eq(refB, refA)
        /\ (rawA.serial = rawB.serial
             /\ (\/ SpaceInsertedAfterComma(rawA.issuer, rawB.issuer)
                 \/ SpaceInsertedAfterComma(rawB.issuer, rawA.issuer)))
            => X509Eq(refA, refB)
        /\ X509Eq(refA, refB) => X509Hash(refA) = X509Hash(refB)
    /\ refA2 # NoRef => refA2.issuer = refA.issuer /\ X509Eq(refA2, refA)

C6_Witness ==
    /\ refA2 # NoRef
    /\ rawA.issuer = <<"a", COMMA, SPACE, "a">>
    /\ rawB.issuer = <<"a", COMMA, "a">>
    /\ rawA.serial = rawB.serial
    /\ X509Eq(refA, refB)

\* the registrations made so far under the identity of (dn, serial)
RegsFor(dn, serial) ==
    {i \in 1..Len(regs) :
        Identity(regs[i].dn, regs[i].serial) = Identity(dn, serial)}

LastRegFor(dn, serial) ==
    regs[CHOOSE i \in RegsFor(dn, serial) : \A j \in RegsFor(dn, serial) : j <= i]

\* the last registration was addCertificate(cert) and the lookup since then
\* was by cert's issuer, written with some number of spaces in befores
\* before each comma and any number after, and by cert's serial
LookupOfLastCertificate(befores) ==
    /\ lastLookup # NoLookup
    /\ regs # <<>>
    /\ regs[Len(regs)].op = "addCertificate"
    /\ \E before \in befores, after \in Pads :
            lastLookup.dn = DnVariant(regs[Len(regs)].cred.issuer, before, after)
    /\ lastLookup.serial = regs[Len(regs)].serial

\* C5 as stated: after addCertificate(cert), a lookup by the same issuer
\* written with spaces added before or after the commas, and the same
\* serial, returns cert.
C5_RoundTripAnyVariant ==
    LookupOfLastCertificate(Pads) => lastLookup.result = regs[Len(regs)].cred

\* C5 amended: after addCertificate(cert), a lookup by the same issuer
\* written with spaces added after the commas only, and the same serial,
\* returns cert.
C5_RoundTripSpacesAfterCommas ==
    LookupOfLastCertificate({0}) => lastLookup.result = regs[Len(regs)].cred

C5_Witness ==
    /\ LookupOfLastCertificate({0})
    /\ lastLookup.dn = DnVariant(regs[Len(regs)].cred.issuer, 0, 1)
    /\ lastLookup.dn # regs[Len(regs)].dn
    /\ lastLookup.result = regs[Len(regs)].cred

C8_LookupMiss ==
    lastLookup # NoLookup =>
        /\ RegsFor(lastLookup.dn, lastLookup.serial) = {}
                => lastLookup.result = KeyError
        /\ lastLookup.result # KeyError
                => \E i \in RegsFor(lastLookup.dn, lastLookup.serial) :
                        regs[i].cred = lastLookup.result

\* C8: a lookup by a reference equal to no registered reference raises
\* (KeyError) and returns neither a default nor another reference's
\* credential, and the failed lookup leaves the keystore as it was.
C8_MissingCredential ==
    /\ []C8_LookupMiss
    /\ [][(lastLookup' # NoLookup /\ lastLookup'.result = KeyError)
            => keystore' = keystore]_vars

C8_Witness ==
    /\ lastLookup # NoLookup
    /\ lastLookup.result = KeyError
    /\ \E i \in 1..Len(regs) :
            /\ regs[i].dn = lastLookup.dn
            /\ regs[i].serial # lastLookup.serial

PartsOf(obj) ==
    IF obj.kind = "Signature" THEN obj.signed_parts ELSE obj.encrypted_parts

RECURSIVE Yielded(_)
Yielded(parts) ==
    IF parts = <<>> THEN <<>>
    ELSE (IF parts[1].t = "None" THEN <<>> ELSE parts[1].v) \o Yielded(Tail(parts))

FirstIndex(seq, x) == CHOOSE i \in 1..Len(seq) : seq[i] = x /\ \A j \in 1..(i - 1) : seq[j] # x

\* C4: the operand list handed to the provider holds every yielded element
\* once, in the order of first occurrence, and nothing else.
C4_OperandDedup ==
    operands.called =>
        LET y == Yielded(PartsOf(partsObj))
            ops == operands.elements
        IN  /\ \A e \in Elements :
                Cardinality({i \in 1..Len(ops) : ops[i] = e})
                    = IF \E k \in 1..Len(y) : y[k] = e THEN 1 ELSE 0
            /\ \A i, j \in 1..Len(ops) :
                i < j => FirstIndex(y, ops[i]) < FirstIndex(y, ops[j])

C4_Witness ==
    /\ operands.called
    /\ partsObj.kind = "Signature"
    /\ partsObj.signed_parts = <<[t |-> "one", v |-> <<"Body">>],
                                 [t |-> "None", v |-> <<>>],
                                 [t |-> "list", v |-> <<"Timestamp", "Body">>]>>
    /\ operands.elements = <<"Body", "Timestamp">>

Returned(e, call) == envs[e].call = call /\ envs[e].pc = "returned"

StepsOf(log) == [k \in 1..Len(log) |-> log[k].step]

\* C1: signMessage and encryptMessage insert at index
\* count(tokens) + (1 if includeTimestamp else 0).
C1_InsertionIndex ==
    \A e \in Envs : \A k \in 1..Len(envs[e].index) :
        envs[e].index[k]
            = Len(policy.tokens) + (IF policy.includeTimestamp THEN 1 ELSE 0)

IsToken(x) == x.kind \in {"Timestamp", "UsernameToken"}
IsCrypto(x) == x.kind \in {"Signature", "EncryptedKey"}

HeaderOrdered(h) ==
    /\ \A i, j \in 1..Len(h) :
            (h[i].kind = "Timestamp" /\ h[j].kind = "UsernameToken") => i < j
    /\ \A i, j \in 1..Len(h) : (IsToken(h[i]) /\ IsCrypto(h[j])) => i < j
    /\ \A i, j \in 1..Len(h) :
            (IsCrypto(h[i]) /\ h[i].kind = h[j].kind /\ h[i].cred < h[j].cred) => i < j

\* C3: after xml() and one processOutgoingMessage the header has the
\* Timestamp before the other tokens, every token before every signature
\* or encrypted key, and the signatures (the keys) in declaration order.
C3_HeaderOrder ==
    \A e \in Envs : Returned(e, "out") => HeaderOrdered(envs[e].header)

Undo(step) ==
    IF step = "sign" THEN "verify"
    ELSE IF step = "encrypt" THEN "decrypt"
    ELSE IF step = "verify" THEN "sign" ELSE "encrypt"

Reverse(seq) == [k \in 1..Len(seq) |-> seq[Len(seq) + 1 - k]]

\* C2: a call that returns has run sign then encrypt (outgoing) and decrypt
\* then verify (incoming) when encryptThenSign is false, encrypt then sign
\* and verify then decrypt when it is true; the incoming sequence undoes
\* the outgoing one last step first; no step runs twice in a call.
C2_OrderingSymmetry ==
    /\ \A e \in Envs :
        /\ Returned(e, "out") =>
                StepsOf(envs[e].log) = IF policy.encryptThenSign
                                       THEN <<"encrypt", "sign">>
                                       ELSE <<"sign", "encrypt">>
        /\ Returned(e, "in") =>
                StepsOf(envs[e].log) = IF policy.encryptThenSign
                                       THEN <<"verify", "decrypt">>
                                       ELSE <<"decrypt", "verify">>
        /\ \A i, j \in 1..Len(envs[e].log) :
                i # j => envs[e].log[i].step # envs[e].log[j].step
    /\ \A o, i \in Envs :
            (Returned(o, "out") /\ Returned(i, "in"))
                => StepsOf(envs[i].log)
                    = Reverse([k \in 1..2 |-> Undo(StepsOf(envs[o].log)[k])])

C2_Witness ==
    /\ policy.encryptThenSign
    /\ \E o, i \in Envs : Returned(o, "out") /\ Returned(i, "in")

\* C7: in processIncomingMessage a step that fails is the last one run and
\* the call raises; a call that returns has had no failing step.
C7_IncomingFailStop ==
    \A e \in Envs :
        envs[e].call = "in" =>
            /\ \A k \in 1..Len(envs[e].log) :
                    ~envs[e].log[k].ok
                        => k = Len(envs[e].log) /\ envs[e].pc = "raised"
            /\ envs[e].pc = "returned"
                    => \A k \in 1..Len(envs[e].log) : envs[e].log[k].ok

C7_Witness ==
    \E e, f \in Envs :
        /\ envs[e].call = "in" /\ envs[e].pc = "raised"
        /\ Len(envs[e].log) = 1 /\ ~envs[e].log[1].ok
        /\ envs[f].call = "in" /\ envs[f].pc = "raised"
        /\ Len(envs[f].log) = 2 /\ ~envs[f].log[2].ok

\* processOutgoingMessage run alone on a freshly built header
AloneStep(p, step, header, env) ==
    IF step = "sign" THEN Security_signMessage(p, header, env).header
    ELSE Security_encryptMessage(p, header, env).header

AloneHeader(p, env) ==
    AloneStep(p, OutgoingSteps(p)[2],
              AloneStep(p, OutgoingSteps(p)[1], Security_xml(p), env), env)

C10_SameAsAlone ==
    \A e \in Envs : Returned(e, "out") => envs[e].header = AloneHeader(policy, e)

\* C10: no step of processOutgoingMessage or processIncomingMessage changes
\* the policy, and an envelope processed while other calls are under way
\* ends with the header it gets when processed alone.
C10_PolicyReadOnly ==
    /\ [][policy' = policy]_vars
    /\ []C10_SameAsAlone

C10_Witness ==
    \E e, f \in Envs :
        /\ e # f
        /\ Returned(e, "out")
        /\ envs[f].pc = "second"
        /\ Len(policy.signatures) > 0 /\ Len(policy.keys) > 0

====
